---------------------------- MODULE Spec2Model ----------------------------
(***************************************************************************)
(* A model of the FogLAMP "simple-python" filter plugin (src/plugin.cpp).  *)
(*                                                                         *)
(* The plugin embeds one process-wide Python engine.  plugin_init builds a *)
(* filter instance and starts the engine when it is not running,           *)
(* plugin_ingest runs the configured code once per reading of a batch and  *)
(* replaces, drops or keeps each reading, plugin_reconfigure changes the   *)
(* code and the enable flag under the configuration lock, plugin_shutdown  *)
(* finalizes the engine when the instance started it.                      *)
(*                                                                         *)
(* Values.  A DatapointValue is [tag, val] with tag T_INTEGER (a C long of *)
(* LongBits bits), T_FLOAT (a double, written in tenths: 15 is 1.5) or     *)
(* T_STRING.  A Python object is [tag, val] with tag int (unbounded),      *)
(* float, bytes, str, list (a type the unpack does not support), dict (val *)
(* is the sequence of its entries in iteration order, keys unique) or NULL *)
(* (no object).  A key is [kind, s]: the bytes b's' and the text 's' are   *)
(* different keys, as in Python 3.                                         *)
(***************************************************************************)
EXTENDS Integers, Sequences, FiniteSets, TLC

(***************************************************************************)
(* Bounds of the model.                                                    *)
(***************************************************************************)
\* Readings in one batch handed to plugin_ingest.
MaxBatch == 2
\* Filter instances (handles) alive in the process at the same time.
NInst == 2
\* Width of a C long, scaled down (64 on the real targets).
LongBits == 6

Inst == 1..NInst

FILTER_NAME == "simple-python"

LongModulus == 2 ^ LongBits
LONG_MAX == 2 ^ (LongBits - 1) - 1
LONG_MIN == 0 - 2 ^ (LongBits - 1)

(***************************************************************************)
(* Python objects.                                                         *)
(***************************************************************************)
PyNULL == [tag |-> "NULL", val |-> 0]
PyLong(n) == [tag |-> "int", val |-> n]
PyFloat(f) == [tag |-> "float", val |-> f]
PyBytes(s) == [tag |-> "bytes", val |-> s]
PyUnicode(s) == [tag |-> "str", val |-> s]
PyList == [tag |-> "list", val |-> 0]
PyDict(entries) == [tag |-> "dict", val |-> entries]
PyDict_New == PyDict(<<>>)

BytesKey(s) == [kind |-> "bytes", s |-> s]
TextKey(s) == [kind |-> "str", s |-> s]

PyDict_Check(o) == o.tag = "dict"
PyDict_Size(d) == Len(d.val)
PyDict_Contains(d, k) == \E n \in 1..Len(d.val) : d.val[n].k = k
\* PyDict_GetItem: the value under k, NULL when k is not a key.
PyDict_GetItem(d, k) ==
    IF PyDict_Contains(d, k)
    THEN d.val[CHOOSE n \in 1..Len(d.val) : d.val[n].k = k].v
    ELSE PyNULL
\* PyDict_SetItem: a key already present keeps its place, a new key goes last.
PyDict_SetItem(d, k, v) ==
    IF PyDict_Contains(d, k)
    THEN PyDict([n \in 1..Len(d.val) |->
                    IF d.val[n].k = k THEN [k |-> k, v |-> v] ELSE d.val[n]])
    ELSE PyDict(Append(d.val, [k |-> k, v |-> v]))

(***************************************************************************)
(* Datapoints and readings.                                                *)
(***************************************************************************)
IntValue(n) == [tag |-> "T_INTEGER", val |-> n]
FloatValue(f) == [tag |-> "T_FLOAT", val |-> f]
StringValue(s) == [tag |-> "T_STRING", val |-> s]
Datapoint(name, data) == [name |-> name, data |-> data]
Reading(asset, points) == [asset |-> asset, points |-> points]

\* DatapointValue::toString() of a value that is neither T_INTEGER nor
\* T_FLOAT (line 372): the value as it is written in a JSON document, the
\* text of a T_STRING between double quotes.
toString(data) == "\"" \o data.val \o "\""

\* (long)PyLong_AsUnsignedLongMask(v): v modulo 2^LongBits, read as a
\* signed long.
AsLongMask(n) ==
    LET u == n % LongModulus
    IN  IF u > LONG_MAX THEN u - LongModulus ELSE u

(***************************************************************************)
(* The value marshaller.                                                   *)
(***************************************************************************)
\* The Python value of one datapoint (lines 359-373).
PackValue(data) ==
    IF data.tag = "T_INTEGER" THEN PyLong(data.val)
    ELSE IF data.tag = "T_FLOAT" THEN PyFloat(data.val)
    ELSE PyBytes(toString(data))

RECURSIVE PackInto(_, _)
PackInto(dict, points) ==
    IF points = <<>> THEN dict
    ELSE PackInto(PyDict_SetItem(dict, BytesKey(Head(points).name),
                                 PackValue(Head(points).data)),
                  Tail(points))

\* A pack that makes the keys with PyUnicode_FromString: the names as text.
\* C5 tells it from the code.
RECURSIVE PackIntoText(_, _)
PackIntoText(dict, points) ==
    IF points = <<>> THEN dict
    ELSE PackIntoText(PyDict_SetItem(dict, TextKey(Head(points).name),
                                     PackValue(Head(points).data)),
                      Tail(points))

createPythonReadingData_TextKeys(points) == PackIntoText(PyDict_New, points)

\* createPythonReadingData: the dict bound to "reading" in the local scope,
\* one entry per datapoint under the bytes of its name.
createPythonReadingData(points) == PackInto(PyDict_New, points)

\* The value types the unpack converts (lines 419-438).
Supported(v) == v.tag \in {"int", "float", "bytes", "str"}

UnpackValue(v) ==
    IF v.tag = "int" THEN IntValue(AsLongMask(v.val))
    ELSE IF v.tag = "float" THEN FloatValue(v.val)
    ELSE StringValue(v.val)

\* The entries before the first one of an unsupported type (the loop of
\* lines 416-458 leaves at the break of line 443).
RECURSIVE UnpackEntries(_)
UnpackEntries(entries) ==
    IF entries = <<>> \/ ~Supported(Head(entries).v) THEN <<>>
    ELSE <<Datapoint(Head(entries).k.s, UnpackValue(Head(entries).v))>>
         \o UnpackEntries(Tail(entries))

\* getFilteredReadingData: null is the NULL return of line 402; ub tells
\* that line 441 was reached, a delete of a pointer that was never set.
getFilteredReadingData(result) ==
    IF result.tag = "NULL" \/ ~PyDict_Check(result) \/ PyDict_Size(result) = 0
    THEN [null |-> TRUE, points |-> <<>>, ub |-> FALSE]
    ELSE [null |-> FALSE,
          points |-> UnpackEntries(result.val),
          ub |-> \E n \in 1..Len(result.val) : ~Supported(result.val[n].v)]

(***************************************************************************)
(* The user code.  Line 210 runs the text "exec(" + code + ")": the code   *)
(* of the configuration is the argument of exec, an expression.  The codes *)
(* of the model are Python string literals, whose value is the program     *)
(* exec runs (its statements separated by \n inside the literal), but for  *)
(* CodeUndefined, a call that raises when the argument is evaluated, and   *)
(* CodeBare, statements written without the quotes.  PyRun_String gives    *)
(* what the run leaves behind: exc, the name of the exception raised (""   *)
(* when none), reading, the object bound to "reading" in the local scope,  *)
(* and ud, the user_data dict of the global scope (PyNULL when nothing is  *)
(* bound there).                                                           *)
(***************************************************************************)
CodeEmpty == ""
CodePass == "'pass'"
CodeDrop == "'reading = {}'"
CodeBare == "reading = {}"
CodeUndefined == "undefined_name()"
CodeIncText == "\"reading['temperature'] = reading['temperature'] + 1\""
CodeIncBytes == "\"reading[b'temperature'] = reading[b'temperature'] + 1\""
CodeList == "\"reading[b'bad'] = [1]\""
CodeMixed == "\"reading = {'unit': 'C', b'bad': [1], b'z': 2}\""
CodeListOnly == "\"reading = {b'bad': [1]}\""
CodeRebind == "\"reading = {'unit': 'C'}\""
CodeNotMapping == "'reading = 5'"
CodeDelete == "'del reading'"
CodeTally ==
    "\"user_data['n'] = user_data.get('n', 0) + 1\\nreading[b'n'] = user_data['n']\\nif reading[b'x'] == 0: reading = {}\""

Ran(exc, reading, ud) == [exc |-> exc, reading |-> reading, ud |-> ud]

\* reading[key] = reading[key] + 1
RunIncrement(key, reading, ud) ==
    LET old == PyDict_GetItem(reading, key)
    IN  IF old.tag = "NULL" THEN Ran("KeyError", reading, ud)
        ELSE IF old.tag = "int"
        THEN Ran("", PyDict_SetItem(reading, key, PyLong(old.val + 1)), ud)
        ELSE IF old.tag = "float"
        THEN Ran("", PyDict_SetItem(reading, key, PyFloat(old.val + 10)), ud)
        ELSE Ran("TypeError", reading, ud)

RunTally(reading, ud) ==
    IF ud.tag = "NULL" THEN Ran("NameError", reading, ud)
    ELSE
    LET seen == PyDict_GetItem(ud, TextKey("n"))
        n == IF seen.tag = "NULL" THEN 1 ELSE seen.val + 1
        ud2 == PyDict_SetItem(ud, TextKey("n"), PyLong(n))
        counted == PyDict_SetItem(reading, BytesKey("n"), PyLong(n))
        x == PyDict_GetItem(counted, BytesKey("x"))
    IN  IF x.tag = "NULL" THEN Ran("KeyError", counted, ud2)
        ELSE IF x.tag \in {"int", "float"} /\ x.val = 0
        THEN Ran("", PyDict_New, ud2)
        ELSE Ran("", counted, ud2)

\* PyRun_String("exec(" + code + ")", Py_file_input, globals, locals).
\* exec() with no argument and exec(reading = {}), a keyword argument, are
\* a TypeError.
PyRun_String(code, reading, ud) ==
    CASE code = CodeEmpty -> Ran("TypeError", reading, ud)
      [] code = CodePass -> Ran("", reading, ud)
      [] code = CodeDrop -> Ran("", PyDict_New, ud)
      [] code = CodeBare -> Ran("TypeError", reading, ud)
      [] code = CodeUndefined -> Ran("NameError", reading, ud)
      [] code = CodeIncText -> RunIncrement(TextKey("temperature"), reading, ud)
      [] code = CodeIncBytes -> RunIncrement(BytesKey("temperature"), reading, ud)
      [] code = CodeList ->
            Ran("", PyDict_SetItem(reading, BytesKey("bad"), PyList), ud)
      [] code = CodeMixed ->
            Ran("", PyDict(<<[k |-> TextKey("unit"), v |-> PyUnicode("C")],
                             [k |-> BytesKey("bad"), v |-> PyList],
                             [k |-> BytesKey("z"), v |-> PyLong(2)]>>), ud)
      [] code = CodeListOnly ->
            Ran("", PyDict(<<[k |-> BytesKey("bad"), v |-> PyList]>>), ud)
      [] code = CodeRebind ->
            Ran("", PyDict(<<[k |-> TextKey("unit"), v |-> PyUnicode("C")]>>), ud)
      [] code = CodeNotMapping -> Ran("", PyLong(5), ud)
      [] code = CodeDelete -> Ran("", PyNULL, ud)
      [] code = CodeTally -> RunTally(reading, ud)
      [] OTHER -> Ran("SyntaxError", reading, ud)

(***************************************************************************)
(* The state of the process.                                               *)
(*   engine  the embedded engine and what is process-wide around it:       *)
(*             initialized        Py_IsInitialized()                       *)
(*             gil                0 (free) or the instance whose ingestion *)
(*                                thread holds the engine lock             *)
(*             user_data          the object bound to "user_data" in the   *)
(*                                global scope of __main__ (PyNULL: none)  *)
(*             libpython_handle   the static of line 49: "NULL", "open",   *)
(*                                or "closed" (set, and dlclose'd)         *)
(*   preload whether the build defines PLUGIN_PYTHON_SHARED_LIBRARY        *)
(*   crashed the process has been ended by the operating system            *)
(*   filter  per handle: live (constructed and not yet deleted), m_init,   *)
(*           m_code, m_enabled, and mutex, the holder of the configuration *)
(*           lock ("free", "ingest", "reconfigure")                        *)
(*   ingest  per handle, the frame of its plugin_ingest call: pc, the      *)
(*           locals enabled and pythonCode, the vector readings, and elem, *)
(*           the iterator (an index into readings)                         *)
(*   reconf  per handle, the position of its plugin_reconfigure call       *)
(*   host    per handle, what the host saw of the last plugin_init: the    *)
(*           value returned, the fatal error logged, whether the category  *)
(*           held the item "code"; flip changes at every call              *)
(*   obs     per handle, what the last plugin_ingest call did, for the     *)
(*           properties: the input batch, the configuration read at the    *)
(*           top, the ids of the readings run, the code each run was given *)
(*           (ranCode), the user_data dict each run                        *)
(*           started with, the errors logged, the asset tracking tuples,   *)
(*           the batches given to the output callback, and whether the     *)
(*           call has returned                                             *)
(***************************************************************************)
VARIABLES engine, preload, crashed, filter, ingest, reconf, host, obs

vars == <<engine, preload, crashed, filter, ingest, reconf, host, obs>>

NoFilter ==
    [live |-> FALSE, m_init |-> FALSE, m_code |-> "", m_enabled |-> FALSE,
     mutex |-> "free"]
NoCall ==
    [pc |-> "idle", enabled |-> FALSE, pythonCode |-> "", readings |-> <<>>,
     elem |-> 1]
NoSnapshot == [enabled |-> FALSE, code |-> ""]
NoObs ==
    [input |-> <<>>, snap |-> NoSnapshot, executed |-> <<>>, ranCode |-> <<>>,
     udSeen |-> <<>>,
     logs |-> <<>>, tuples |-> <<>>, forwarded |-> <<>>, returned |-> FALSE]
NoInit == [ret |-> "none", fatal |-> "", hadCode |-> FALSE, flip |-> FALSE]

\* obs keeps what a call did from its return to the host's next call on the
\* handle.
Forget(i) == [obs EXCEPT ![i] = IF @.returned THEN NoObs ELSE @]

Init ==
    /\ engine = [initialized |-> FALSE, gil |-> 0, user_data |-> PyNULL,
                 libpython_handle |-> "NULL"]
    /\ preload \in BOOLEAN
    /\ crashed = FALSE
    /\ filter = [i \in Inst |-> NoFilter]
    /\ ingest = [i \in Inst |-> NoCall]
    /\ reconf = [i \in Inst |-> "idle"]
    /\ host = [i \in Inst |-> NoInit]
    /\ obs = [i \in Inst |-> NoObs]

(***************************************************************************)
(* plugin_init.  cfg is the configuration category: hasCode tells whether  *)
(* it holds the item "code", code and enable are the values.  dlopenOk is  *)
(* whether the pre-load of the Python library succeeds when it is tried.   *)
(***************************************************************************)
\* The filter object built at lines 99-103: the base class reads the
\* enable item, the ownership flag starts unset.
SimplePythonFilter(cfg) ==
    [live |-> TRUE, m_init |-> FALSE, m_code |-> "",
     m_enabled |-> (cfg.enable \in {"true", "True"}), mutex |-> "free"]

\* A return that leaves the object where it is.  C10 tells it from the code.
DeleteHandle_Leaks(f) == f

\* delete handle (lines 116 and 136), delete filter (line 302): the object
\* is gone.
DeleteHandle(f) == NoFilter

\* Lines 109-118: NULL is returned before the engine is looked at.
InitMissingCode(i, cfg) ==
    /\ filter' = [filter EXCEPT ![i] = DeleteHandle(SimplePythonFilter(cfg))]
    /\ host' = [host EXCEPT ![i] =
                  [ret |-> "NULL", fatal |-> "missing code", hadCode |-> FALSE,
                   flip |-> ~host[i].flip]]
    /\ UNCHANGED <<engine, ingest, obs>>

\* Lines 126-138: the pre-load failed.
InitPreloadFailed(i, cfg) ==
    /\ engine' = [engine EXCEPT !.libpython_handle = "NULL"]
    /\ filter' = [filter EXCEPT ![i] = DeleteHandle(SimplePythonFilter(cfg))]
    /\ host' = [host EXCEPT ![i] =
                  [ret |-> "NULL", fatal |-> "pre-load", hadCode |-> TRUE,
                   flip |-> ~host[i].flip]]
    /\ UNCHANGED <<ingest, obs>>

\* Lines 147-150: Py_Initialize, PyEval_InitThreads, PyEval_SaveThread.
InitStartEngine(i, cfg) ==
    /\ engine' = [initialized |-> TRUE, gil |-> 0, user_data |-> PyNULL,
                  libpython_handle |->
                      IF preload THEN "open" ELSE engine.libpython_handle]
    /\ filter' = [filter EXCEPT ![i] =
                    [SimplePythonFilter(cfg) EXCEPT
                        !.m_code = cfg.code, !.m_init = TRUE]]

InitJoinEngine(i, cfg) ==
    /\ filter' = [filter EXCEPT ![i] =
                    [SimplePythonFilter(cfg) EXCEPT !.m_code = cfg.code]]
    /\ UNCHANGED engine

plugin_init(i, cfg, dlopenOk) ==
    /\ ~crashed
    /\ ~filter[i].live
    /\ IF ~cfg.hasCode THEN InitMissingCode(i, cfg)
       ELSE IF ~engine.initialized /\ preload /\ ~dlopenOk
       THEN InitPreloadFailed(i, cfg)
       ELSE /\ IF ~engine.initialized
               THEN InitStartEngine(i, cfg)
               ELSE InitJoinEngine(i, cfg)
            /\ host' = [host EXCEPT ![i] =
                          [ret |-> "handle", fatal |-> "", hadCode |-> TRUE,
                           flip |-> ~host[i].flip]]
            /\ ingest' = [ingest EXCEPT ![i] = NoCall]
            /\ obs' = [obs EXCEPT ![i] = NoObs]
    /\ UNCHANGED <<preload, crashed, reconf>>

(***************************************************************************)
(* plugin_shutdown.  The host calls it on a handle it is not using.        *)
(* PyGILState_Ensure waits for the engine lock.  On an engine that is not  *)
(* initialized it has no defined behaviour: crash is the outcome, the      *)
(* process is ended there or the call goes on.                             *)
(***************************************************************************)
\* Lines 284-294.
ShutdownOwner(i) ==
    engine' = [initialized |-> FALSE, gil |-> 0, user_data |-> PyNULL,
               libpython_handle |->
                   IF engine.libpython_handle = "NULL" THEN "NULL" ELSE "closed"]

\* Lines 295-299.
ShutdownOther(i) == engine' = [engine EXCEPT !.gil = 0]

plugin_shutdown(i, crash) ==
    /\ ~crashed
    /\ filter[i].live
    /\ ingest[i].pc = "idle"
    /\ reconf[i] = "idle"
    /\ IF ~engine.initialized /\ crash
       THEN /\ crashed' = TRUE
            /\ UNCHANGED <<engine, filter>>
       ELSE /\ engine.gil = 0
            /\ IF filter[i].m_init THEN ShutdownOwner(i) ELSE ShutdownOther(i)
            /\ filter' = [filter EXCEPT ![i] = DeleteHandle(filter[i])]
            /\ UNCHANGED crashed
    /\ obs' = Forget(i)
    /\ UNCHANGED <<preload, ingest, reconf, host>>

(***************************************************************************)
(* plugin_reconfigure.  new is the parsed category: hasCode and hasEnable  *)
(* tell which items it holds.                                              *)
(***************************************************************************)
\* Line 317.
reconfigure_lock(i) ==
    /\ ~crashed
    /\ filter[i].live
    /\ reconf[i] = "idle"
    /\ filter[i].mutex = "free"
    /\ filter' = [filter EXCEPT ![i].mutex = "reconfigure"]
    /\ reconf' = [reconf EXCEPT ![i] = "locked"]
    /\ obs' = Forget(i)
    /\ UNCHANGED <<engine, preload, crashed, ingest, host>>

\* Lines 319-335.
reconfigure_apply(i, new) ==
    /\ ~crashed
    /\ reconf[i] = "locked"
    /\ filter' = [filter EXCEPT
                    ![i].m_code = IF new.hasCode THEN new.code ELSE @,
                    ![i].m_enabled = IF new.hasEnable
                                     THEN new.enable \in {"true", "True"}
                                     ELSE @,
                    ![i].mutex = "free"]
    /\ reconf' = [reconf EXCEPT ![i] = "idle"]
    /\ obs' = Forget(i)
    /\ UNCHANGED <<engine, preload, crashed, ingest, host>>

(***************************************************************************)
(* plugin_ingest, one action per step of the call.                         *)
(***************************************************************************)
\* The name of the filter's configuration category: the stage name.
StageName(i) == i

\* The host calls plugin_ingest with a batch; the readings get the ids
\* 1, 2, ... so that a reading can be told from another of the same content.
ingest_call(i, batch) ==
    /\ ~crashed
    /\ filter[i].live
    /\ ingest[i].pc = "idle"
    /\ ingest' = [ingest EXCEPT ![i] = [NoCall EXCEPT !.pc = "lock",
                                                      !.readings = batch]]
    /\ obs' = [obs EXCEPT ![i] = [NoObs EXCEPT !.input = batch]]
    /\ UNCHANGED <<engine, preload, crashed, filter, reconf, host>>

\* Line 175.
ingest_lock(i) ==
    /\ ~crashed
    /\ ingest[i].pc = "lock"
    /\ filter[i].mutex = "free"
    /\ filter' = [filter EXCEPT ![i].mutex = "ingest"]
    /\ ingest' = [ingest EXCEPT ![i].pc = "cfg"]
    /\ UNCHANGED <<engine, preload, crashed, reconf, host, obs>>

\* Lines 176-177 without the unlock of line 179: a call that keeps the
\* configuration lock after it read the two items.  C20 tells it from the
\* code.
ingest_snapshot_KeepsLock(i) ==
    /\ ~crashed
    /\ ingest[i].pc = "cfg"
    /\ ingest' = [ingest EXCEPT ![i].pc = "snap",
                                ![i].enabled = filter[i].m_enabled,
                                ![i].pythonCode = filter[i].m_code]
    /\ obs' = [obs EXCEPT ![i].snap = [enabled |-> filter[i].m_enabled,
                                       code |-> filter[i].m_code]]
    /\ UNCHANGED <<engine, preload, crashed, filter, reconf, host>>

\* Lines 176-179.
ingest_snapshot(i) ==
    /\ ~crashed
    /\ ingest[i].pc = "cfg"
    /\ ingest' = [ingest EXCEPT ![i].pc = "snap",
                                ![i].enabled = filter[i].m_enabled,
                                ![i].pythonCode = filter[i].m_code]
    /\ filter' = [filter EXCEPT ![i].mutex = "free"]
    /\ obs' = [obs EXCEPT ![i].snap = [enabled |-> filter[i].m_enabled,
                                       code |-> filter[i].m_code]]
    /\ UNCHANGED <<engine, preload, crashed, reconf, host>>

\* The test of line 181 without its first half: a filter that looks only at
\* the code.  C1 tells the two apart.
NotActive_CodeOnly(enabled, pythonCode) == Len(pythonCode) = 0

\* The test of line 181.
NotActive(enabled, pythonCode) == ~enabled \/ Len(pythonCode) = 0

\* filter->m_func(filter->m_data, readingSet), and the return.
Forward(i) ==
    /\ obs' = [obs EXCEPT ![i].forwarded = Append(@, ingest[i].readings),
                          ![i].returned = TRUE]
    /\ ingest' = [ingest EXCEPT ![i] = NoCall]

\* Lines 181-186.
ingest_passthrough(i) ==
    /\ ~crashed
    /\ ingest[i].pc = "snap"
    /\ NotActive(ingest[i].enabled, ingest[i].pythonCode)
    /\ Forward(i)
    /\ UNCHANGED <<engine, preload, crashed, filter, reconf, host>>

\* Lines 188-198: PyGILState_Ensure, then the fresh user_data dict.
ingest_acquire(i) ==
    /\ ~crashed
    /\ ingest[i].pc = "snap"
    /\ ~NotActive(ingest[i].enabled, ingest[i].pythonCode)
    /\ IF ~engine.initialized
       THEN /\ crashed' = TRUE
            /\ UNCHANGED <<engine, ingest>>
       ELSE /\ engine.gil = 0
            /\ engine' = [engine EXCEPT !.gil = i, !.user_data = PyDict_New]
            /\ ingest' = [ingest EXCEPT ![i].pc = "loop", ![i].elem = 1]
            /\ UNCHANGED crashed
    /\ UNCHANGED <<preload, filter, reconf, host, obs>>

\* A run given the code the filter holds at that moment.  C12 tells it from
\* the code.
RunCode_Member(i) == filter[i].m_code

\* The code a run of the call of instance i is given: the local pythonCode
\* (line 210).
RunCode(i) == ingest[i].pythonCode

\* The object the code finds under the name user_data: the binding of the
\* global scope handed to the run (lines 189-195 and 212).
GlobalUserData(e) == e.user_data

\* The entry logErrorMessage writes (lines 492-496): the stage name, the
\* code the filter holds at that moment, the exception.
logErrorMessage(i, exc) ==
    [name |-> StageName(i), code |-> filter[i].m_code, error |-> exc]

\* A loop that a raised exception ends: the readings after the failed one are
\* not looked at.  C3 tells it from the code.
KeepReading_EndsLoop(call) == [call EXCEPT !.elem = Len(call.readings) + 1]

\* Lines 215-219: the reading stays as it is.
KeepReading(call) == [call EXCEPT !.elem = @ + 1]

\* A replace without removeAllDatapoints: the new datapoints are added to
\* the ones the reading has.  C16 tells it from the code.
ReplaceDatapoints_Merges(call, points) ==
    [call EXCEPT !.readings[call.elem].points = @ \o points, !.elem = @ + 1]

\* Lines 230-241: the datapoints are removed and the new ones added.
ReplaceDatapoints(call, points) ==
    [call EXCEPT !.readings[call.elem].points = points, !.elem = @ + 1]

\* An erase after which the iterator is set to begin().  C13 tells it from
\* the code.
EraseReading_Restarts(call) ==
    [call EXCEPT !.readings =
        [n \in 1..(Len(call.readings) - 1) |->
            IF n < call.elem THEN call.readings[n] ELSE call.readings[n + 1]],
                 !.elem = 1]

\* An erase followed by the ++ of the iterator: the reading after the erased
\* one is stepped over.  C4 tells it from the code.
EraseReading_StepsOver(call) ==
    [call EXCEPT !.readings =
        [n \in 1..(Len(call.readings) - 1) |->
            IF n < call.elem THEN call.readings[n] ELSE call.readings[n + 1]],
                 !.elem = @ + 1]

\* Lines 245-247: erase gives the iterator of the reading that followed.
EraseReading(call) ==
    [call EXCEPT !.readings =
        [n \in 1..(Len(call.readings) - 1) |->
            IF n < call.elem THEN call.readings[n] ELSE call.readings[n + 1]]]

\* Lines 204-252, one turn of the loop.  crash is the outcome of the delete
\* of line 441 when that line is reached: the process is ended, or it goes
\* on.
ingest_record(i, crash) ==
    /\ ~crashed
    /\ ingest[i].pc = "loop"
    /\ engine.gil = i
    /\ ingest[i].elem <= Len(ingest[i].readings)
    /\ LET call == ingest[i]
           this == call.readings[call.elem]
           run == PyRun_String(RunCode(i),
                               createPythonReadingData(this.points),
                               GlobalUserData(engine))
           got == getFilteredReadingData(run.reading)
           ran == [obs[i] EXCEPT !.executed = Append(@, this.id),
                                 !.ranCode = Append(@, RunCode(i)),
                                 !.udSeen = Append(@, GlobalUserData(engine))]
       IN  /\ engine' = [engine EXCEPT !.user_data = run.ud]
           /\ IF run.exc # ""
              THEN /\ obs' = [obs EXCEPT ![i] =
                                [ran EXCEPT !.logs =
                                    Append(@, logErrorMessage(i, run.exc))]]
                   /\ ingest' = [ingest EXCEPT ![i] = KeepReading(call)]
                   /\ UNCHANGED crashed
              ELSE IF got.ub /\ crash
              THEN /\ crashed' = TRUE
                   /\ obs' = [obs EXCEPT ![i] = ran]
                   /\ UNCHANGED ingest
              ELSE /\ obs' = [obs EXCEPT ![i] = ran]
                   /\ ingest' = [ingest EXCEPT ![i] =
                         IF ~got.null /\ Len(got.points) > 0
                         THEN ReplaceDatapoints(call, got.points)
                         ELSE EraseReading(call)]
                   /\ UNCHANGED crashed
    /\ UNCHANGED <<preload, filter, reconf, host>>

(***************************************************************************)
(* The engine lock inside PyRun_String (lines 210-213).  The engine lock   *)
(* is the interpreter's global lock: a thread that waits for it asks the   *)
(* running thread to drop it, and the evaluation loop of the running       *)
(* thread does so at its next check, then waits for the lock itself.  The  *)
(* model places the check at the start of the run of a reading.            *)
(***************************************************************************)
\* Thread j waits for the engine lock: in PyGILState_Ensure of line 188, or
\* in the evaluation loop after it dropped the lock.
WaitsForEngine(j) ==
    \/ /\ ingest[j].pc = "snap"
       /\ ~NotActive(ingest[j].enabled, ingest[j].pythonCode)
    \/ ingest[j].pc = "loop" /\ engine.gil # j

\* The evaluation loop drops the engine lock on request.
eval_drop_gil(i) ==
    /\ ~crashed
    /\ ingest[i].pc = "loop"
    /\ engine.gil = i
    /\ ingest[i].elem <= Len(ingest[i].readings)
    /\ \E j \in Inst \ {i} : WaitsForEngine(j)
    /\ engine' = [engine EXCEPT !.gil = 0]
    /\ UNCHANGED <<preload, crashed, filter, ingest, reconf, host, obs>>

\* The evaluation loop takes the engine lock again and the run goes on.
eval_take_gil(i) ==
    /\ ~crashed
    /\ ingest[i].pc = "loop"
    /\ engine.gil = 0
    /\ engine' = [engine EXCEPT !.gil = i]
    /\ UNCHANGED <<preload, crashed, filter, ingest, reconf, host, obs>>

\* A return from the loop without PyGILState_Release.  C17 tells it from the
\* code.
ingest_release_KeepsLock(i) ==
    /\ ~crashed
    /\ ingest[i].pc = "loop"
    /\ engine.gil = i
    /\ ingest[i].elem > Len(ingest[i].readings)
    /\ engine' = [engine EXCEPT !.user_data = PyNULL]
    /\ ingest' = [ingest EXCEPT ![i].pc = "track"]
    /\ UNCHANGED <<preload, crashed, filter, reconf, host, obs>>

\* Lines 255-257: user_data leaves the global scope, the lock is released.
ingest_release(i) ==
    /\ ~crashed
    /\ ingest[i].pc = "loop"
    /\ engine.gil = i
    /\ ingest[i].elem > Len(ingest[i].readings)
    /\ engine' = [engine EXCEPT !.gil = 0, !.user_data = PyNULL]
    /\ ingest' = [ingest EXCEPT ![i].pc = "track"]
    /\ UNCHANGED <<preload, crashed, filter, reconf, host, obs>>

\* Tuples made from the batch as it came in.  C8 tells it from the code.
TrackingTuples_OfInput(i, readings) ==
    [n \in 1..Len(obs[i].input) |->
        [name |-> StageName(i), asset |-> obs[i].input[n].asset,
         event |-> "Filter"]]

\* Lines 261-268: one tuple per reading of the vector.
TrackingTuples(i, readings) ==
    [n \in 1..Len(readings) |->
        [name |-> StageName(i), asset |-> readings[n].asset,
         event |-> "Filter"]]

ingest_track(i) ==
    /\ ~crashed
    /\ ingest[i].pc = "track"
    /\ obs' = [obs EXCEPT ![i].tuples = @ \o TrackingTuples(i, ingest[i].readings)]
    /\ ingest' = [ingest EXCEPT ![i].pc = "forward"]
    /\ UNCHANGED <<engine, preload, crashed, filter, reconf, host>>

\* Line 271.
ingest_forward(i) ==
    /\ ~crashed
    /\ ingest[i].pc = "forward"
    /\ Forward(i)
    /\ UNCHANGED <<engine, preload, crashed, filter, reconf, host>>

(***************************************************************************)
(* The inputs of the host.                                                 *)
(***************************************************************************)
Temperature(data) == Datapoint("temperature", data)

Samples ==
    { Reading("TI1", <<Temperature(IntValue(23))>>),
      Reading("TI2", <<Datapoint("x", IntValue(0))>>),
      Reading("TI2", <<Temperature(FloatValue(15)), Datapoint("x", IntValue(1))>>),
      Reading("TI1", <<Datapoint("label", StringValue("on"))>>),
      Reading("TI1", <<Temperature(IntValue(LONG_MAX))>>),
      Reading("TI2", <<>>) }

WithIds(rs) ==
    [n \in 1..Len(rs) |->
        [id |-> n, asset |-> rs[n].asset, points |-> rs[n].points]]

BatchesOf(samples, maxLen) ==
    { WithIds(rs) : rs \in UNION { [1..n -> samples] : n \in 0..maxLen } }

Batches == BatchesOf(Samples, MaxBatch)

Codes ==
    {CodeEmpty, CodePass, CodeDrop, CodeBare, CodeUndefined, CodeIncText,
     CodeIncBytes, CodeList, CodeMixed, CodeListOnly, CodeRebind,
     CodeNotMapping, CodeDelete, CodeTally}

Enables == {"true", "True", "false"}

InitConfigs(codes) ==
    [hasCode : {TRUE}, code : codes, enable : Enables]
        \cup [hasCode : {FALSE}, code : {""}, enable : Enables]

NewConfigs(codes) ==
    LET code == [hasCode : {TRUE}, code : codes] \cup {[hasCode |-> FALSE, code |-> ""]}
        enable == [hasEnable : {TRUE}, enable : Enables]
                      \cup {[hasEnable |-> FALSE, enable |-> ""]}
    IN  { [hasCode |-> c.hasCode, code |-> c.code,
           hasEnable |-> e.hasEnable, enable |-> e.enable] : c \in code, e \in enable }

(***************************************************************************)
(* Spec: one filter instance whose host makes one call at a time, with     *)
(* every batch and every code.                                             *)
(***************************************************************************)
Next ==
    \/ \E cfg \in InitConfigs(Codes), ok \in BOOLEAN : plugin_init(1, cfg, ok)
    \/ \E crash \in BOOLEAN : plugin_shutdown(1, crash)
    \/ ingest[1].pc = "idle" /\ reconfigure_lock(1)
    \/ \E new \in NewConfigs(Codes) : reconfigure_apply(1, new)
    \/ reconf[1] = "idle" /\ \E batch \in Batches : ingest_call(1, batch)
    \/ ingest_lock(1)
    \/ ingest_snapshot(1)
    \/ ingest_passthrough(1)
    \/ ingest_acquire(1)
    \/ \E crash \in BOOLEAN : ingest_record(1, crash)
    \/ ingest_release(1)
    \/ ingest_track(1)
    \/ ingest_forward(1)

Spec == Init /\ [][Next]_vars

(***************************************************************************)
(* SpecLive: Spec with the scheduling a thread gets.  A call that can take *)
(* its next step takes it; the configuration lock is granted to a thread   *)
(* that keeps asking for it.                                               *)
(***************************************************************************)
IngestStep(i) ==
    \/ ingest_snapshot(i)
    \/ ingest_passthrough(i)
    \/ ingest_acquire(i)
    \/ \E crash \in BOOLEAN : ingest_record(i, crash)
    \/ ingest_release(i)
    \/ ingest_track(i)
    \/ ingest_forward(i)

SpecLive ==
    /\ Spec
    /\ WF_vars(IngestStep(1))
    /\ SF_vars(ingest_lock(1))
    /\ WF_vars(\E new \in NewConfigs(Codes) : reconfigure_apply(1, new))

(***************************************************************************)
(* SpecLife: several filter instances on the one engine, built, used and   *)
(* shut down in any order by a host that makes one call at a time.         *)
(***************************************************************************)
NoCallRunning == \A j \in Inst : ingest[j].pc = "idle" /\ reconf[j] = "idle"

LifeBatches ==
    { WithIds(<<Reading("TI1", <<Datapoint("x", IntValue(1))>>),
                Reading("TI2", <<Datapoint("label", StringValue("on"))>>)>>),
      WithIds(<<Reading("TI2", <<Datapoint("x", IntValue(0))>>)>>) }

LifeCodes == {CodeEmpty, CodeTally}

NextLife ==
    \E i \in Inst :
        \/ /\ NoCallRunning
           /\ \E cfg \in InitConfigs(LifeCodes), ok \in BOOLEAN : plugin_init(i, cfg, ok)
        \/ NoCallRunning /\ \E crash \in BOOLEAN : plugin_shutdown(i, crash)
        \/ NoCallRunning /\ reconfigure_lock(i)
        \/ \E new \in NewConfigs(LifeCodes) : reconfigure_apply(i, new)
        \/ NoCallRunning /\ \E batch \in LifeBatches : ingest_call(i, batch)
        \/ ingest_lock(i)
        \/ ingest_snapshot(i)
        \/ ingest_passthrough(i)
        \/ ingest_acquire(i)
        \/ \E crash \in BOOLEAN : ingest_record(i, crash)
        \/ ingest_release(i)
        \/ ingest_track(i)
        \/ ingest_forward(i)

SpecLife == Init /\ [][NextLife]_vars

(***************************************************************************)
(* SpecConc: two filter instances, built on the one engine and not shut    *)
(* down, whose calls interleave step by step: an ingestion and a           *)
(* reconfiguration of the same instance, and the ingestions of the two     *)
(* instances, the engine lock passing from one to the other as the engine  *)
(* allows.                                                                 *)
(***************************************************************************)
ConcBatches ==
    { WithIds(<<Reading("TI1", <<Datapoint("x", IntValue(1))>>),
                Reading("TI2", <<Datapoint("label", StringValue("on"))>>)>>) }

ConcCodes == {CodeTally, CodeUndefined}

ConcInitConfigs == [hasCode : {TRUE}, code : ConcCodes, enable : {"true"}]

ConcNewConfigs ==
    [hasCode : {TRUE}, code : ConcCodes, hasEnable : {FALSE}, enable : {""}]
        \cup { [hasCode |-> FALSE, code |-> "", hasEnable |-> TRUE,
                enable |-> "false"] }

\* Instance 1 is reconfigured while it runs; instance 2 keeps the code it
\* was built with.
NextConc ==
    \/ \E cfg \in ConcInitConfigs : plugin_init(1, cfg, TRUE)
    \/ plugin_init(2, [hasCode |-> TRUE, code |-> CodeTally, enable |-> "true"],
                   TRUE)
    \/ reconfigure_lock(1)
    \/ \E new \in ConcNewConfigs : reconfigure_apply(1, new)
    \/ \E i \in {1, 2} :
        \/ \E batch \in ConcBatches : ingest_call(i, batch)
        \/ ingest_lock(i)
        \/ ingest_snapshot(i)
        \/ ingest_passthrough(i)
        \/ ingest_acquire(i)
        \/ eval_drop_gil(i)
        \/ eval_take_gil(i)
        \/ \E crash \in BOOLEAN : ingest_record(i, crash)
        \/ ingest_release(i)
        \/ ingest_track(i)
        \/ ingest_forward(i)

SpecConc == Init /\ [][NextConc]_vars

(***************************************************************************)
(* What the properties speak of.                                           *)
(***************************************************************************)
\* The call of instance i that has returned went through the loop.
WentThroughLoop(i) == obs[i].returned /\ obs[i].snap.enabled /\ obs[i].snap.code # ""

\* The batch the output callback of instance i was given.
Out(i) == obs[i].forwarded[1]

\* The user_data dict a call with this code leaves to the code of the k-th
\* reading of the input: empty for the first, then what each run left.
RECURSIVE UdBefore(_, _, _)
UdBefore(code, input, k) ==
    IF k = 1 THEN PyDict_New
    ELSE PyRun_String(code, createPythonReadingData(input[k - 1].points),
                      UdBefore(code, input, k - 1)).ud

\* The run of the code of the call of instance i for the k-th reading of its
\* input.
RunOf(i, k) ==
    PyRun_String(obs[i].snap.code,
                 createPythonReadingData(obs[i].input[k].points),
                 UdBefore(obs[i].snap.code, obs[i].input, k))

Raised(i, k) == RunOf(i, k).exc # ""
EmptyResult(i, k) == ~Raised(i, k) /\ RunOf(i, k).reading = PyDict_New
Unpacks(i, k) ==
    /\ ~Raised(i, k)
    /\ LET got == getFilteredReadingData(RunOf(i, k).reading)
       IN  ~got.null /\ Len(got.points) > 0

InOut(i, k) == \E n \in 1..Len(Out(i)) : Out(i)[n].id = k
InOrder(rs) == \A m, n \in 1..Len(rs) : m < n => rs[m].id < rs[n].id
PointSet(points) == { points[n] : n \in 1..Len(points) }

(***************************************************************************)
(* The properties.                                                         *)
(***************************************************************************)
\* C1: when the configuration a call read says disabled, or holds an empty
\* code, the call gives the output callback its input batch, once, the
\* same readings in the same order, and ran the code for none of them.
C1_PassthroughForwardsInput ==
    \A i \in Inst :
        (obs[i].returned /\ (~obs[i].snap.enabled \/ obs[i].snap.code = ""))
            => /\ obs[i].forwarded = <<obs[i].input>>
               /\ obs[i].executed = <<>>
               /\ obs[i].logs = <<>>

\* C1, its case: a disabled filter whose code would drop every reading has
\* returned from a call with a full batch.
C1_DisabledWithDroppingCode ==
    \E i \in Inst :
        /\ obs[i].returned
        /\ ~obs[i].snap.enabled
        /\ obs[i].snap.code = CodeDrop
        /\ Len(obs[i].input) = MaxBatch

\* C2: every call of plugin_ingest gets to the output callback and invokes
\* it once.  The code does not keep this: see C2_CallLostAtDelete.
C2_EveryCallForwardsOnce ==
    \A i \in Inst :
        (ingest[i].pc = "lock")
            ~> (obs[i].returned /\ Len(obs[i].forwarded) = 1)

\* C2: the process was ended inside a call that had run the code and had
\* not yet reached the output callback.
C2_CallLostAtDelete ==
    \E i \in Inst :
        /\ crashed
        /\ ingest[i].pc = "loop"
        /\ obs[i].executed # <<>>
        /\ obs[i].forwarded = <<>>

\* C3: in a call that went through the loop, the code ran once for every
\* reading of the input, in order; every reading whose code raised is in the
\* output as it came in, the output keeps the order of the input, and there
\* is one log entry, under the stage name, for each reading that raised.
C3_FailedReadingStaysAndLoopGoesOn ==
    \A i \in Inst :
        WentThroughLoop(i) =>
            LET input == obs[i].input
                raised == { k \in 1..Len(input) : Raised(i, k) }
            IN  /\ obs[i].executed = [k \in 1..Len(input) |-> k]
                /\ \A k \in raised :
                       \E n \in 1..Len(Out(i)) : Out(i)[n] = input[k]
                /\ InOrder(Out(i))
                /\ Len(obs[i].logs) = Cardinality(raised)
                /\ \A l \in 1..Len(obs[i].logs) :
                       /\ obs[i].logs[l].name = i
                       /\ obs[i].logs[l].error # ""

\* C3, its case: the code of the first reading raised, the code of the
\* second ran and replaced its datapoints.
C3_FirstRaisedSecondReplaced ==
    \E i \in Inst :
        /\ WentThroughLoop(i)
        /\ Len(obs[i].input) = 2
        /\ Raised(i, 1)
        /\ ~Raised(i, 2)
        /\ Len(obs[i].logs) = 1
        /\ Len(Out(i)) = 2
        /\ Out(i)[1] = obs[i].input[1]
        /\ Out(i)[2].points # obs[i].input[2].points

\* C4: in a call that went through the loop, a reading whose code left an
\* empty mapping in reading is not in the output; a reading whose code
\* raised, or left a mapping that yields a datapoint, is in it once; the
\* output keeps the order of the input and is shorter than the input by the
\* number of readings that are gone.
C4_EmptyResultRemovesReading ==
    \A i \in Inst :
        WentThroughLoop(i) =>
            LET input == obs[i].input
                gone == { k \in 1..Len(input) : ~InOut(i, k) }
            IN  /\ \A k \in 1..Len(input) :
                       /\ EmptyResult(i, k) => k \in gone
                       /\ (Raised(i, k) \/ Unpacks(i, k)) =>
                              Cardinality({ n \in 1..Len(Out(i)) :
                                              Out(i)[n].id = k }) = 1
                /\ InOrder(Out(i))
                /\ Len(Out(i)) = Len(input) - Cardinality(gone)

\* C4, its case: the first reading was removed for an empty result, the
\* second one stayed.
C4_FirstRemovedSecondStays ==
    \E i \in Inst :
        /\ WentThroughLoop(i)
        /\ Len(obs[i].input) = 2
        /\ EmptyResult(i, 1)
        /\ Unpacks(i, 2)
        /\ Len(Out(i)) = 1
        /\ Out(i)[1].id = 2

\* C5: the batch of one reading TI1 with temperature = 23 (int), run with
\* the code that adds 1 to reading['temperature'], the text key, comes out
\* as one reading TI1 with the only datapoint temperature = 24 (int).  The
\* code does not keep this: the key of the packed mapping is b'temperature'.
C5_TextKeyIncrement ==
    \A i \in Inst :
        (/\ WentThroughLoop(i)
         /\ obs[i].snap.code = CodeIncText
         /\ obs[i].input =
                WithIds(<<Reading("TI1", <<Temperature(IntValue(23))>>)>>))
            => Out(i) =
                WithIds(<<Reading("TI1", <<Temperature(IntValue(24))>>)>>)

\* C5, with the key the pack makes: the batch of one reading TI1 with
\* temperature = 23 (int), run with the code that adds 1 to
\* reading[b'temperature'], comes out as one reading TI1 with the only
\* datapoint temperature = 24 (int), and nothing is logged.
C5_BytesKeyIncrement ==
    \A i \in Inst :
        (/\ WentThroughLoop(i)
         /\ obs[i].snap.code = CodeIncBytes
         /\ obs[i].input =
                WithIds(<<Reading("TI1", <<Temperature(IntValue(23))>>)>>))
            => /\ Out(i) =
                   WithIds(<<Reading("TI1", <<Temperature(IntValue(24))>>)>>)
               /\ obs[i].logs = <<>>

\* C5, its case: the call with the bytes key and the reading of the
\* scenario has returned.
C5_ScenarioRan ==
    \E i \in Inst :
        /\ WentThroughLoop(i)
        /\ obs[i].snap.code = CodeIncBytes
        /\ obs[i].input =
               WithIds(<<Reading("TI1", <<Temperature(IntValue(23))>>)>>)
        /\ obs[i].executed = <<1>>

\* C6: with a code that leaves reading as it is, every reading that has a
\* datapoint comes out with the names, types and values it came in with.
\* The code does not keep this: see C6_StringComesBackQuoted.
C6_RoundTripIsIdentity ==
    \A i \in Inst :
        (WentThroughLoop(i) /\ obs[i].snap.code = CodePass) =>
            \A k \in 1..Len(obs[i].input) :
                Len(obs[i].input[k].points) > 0 =>
                    \E n \in 1..Len(Out(i)) :
                        /\ Out(i)[n].id = k
                        /\ PointSet(Out(i)[n].points)
                               = PointSet(obs[i].input[k].points)

\* C6: the reading with the string datapoint label = on has come out of a
\* call whose code leaves reading as it is with label = "on", the quotes
\* part of the value.
C6_StringComesBackQuoted ==
    \E i \in Inst :
        /\ WentThroughLoop(i)
        /\ obs[i].snap.code = CodePass
        /\ obs[i].input =
               WithIds(<<Reading("TI1", <<Datapoint("label", StringValue("on"))>>)>>)
        /\ Out(i) =
               WithIds(<<Reading("TI1",
                                 <<Datapoint("label", StringValue("\"on\""))>>)>>)

\* C7: the user_data dict the code of a reading finds is the one the call
\* made empty at its start with all that the code of the readings before it,
\* in this call, wrote into it (a reading whose code raised included); and
\* when no call holds the engine lock no user_data is bound, so nothing goes
\* from one call to the next.  The code keeps this while one call at a time
\* runs the engine (Spec); it does not when the calls of two instances
\* overlap: see C7_SecondReadingMissesFirstWrite.
C7_UserDataLivesForOneCall ==
    /\ \A i \in Inst :
           \A k \in 1..Len(obs[i].udSeen) :
               /\ obs[i].executed[k] = k
               /\ obs[i].udSeen[k] =
                      UdBefore(obs[i].snap.code, obs[i].input, k)
    /\ engine.gil = 0 => engine.user_data = PyNULL
    /\ \A i \in Inst :
           (ingest[i].pc = "loop" /\ obs[i].executed = <<>>)
               => engine.user_data = PyDict_New

\* C7, with two instances at work: the code of the first reading of a call
\* wrote its count into user_data, and the code of the second reading of
\* the same call found a user_data without it.
C7_SecondReadingMissesFirstWrite ==
    \E i \in Inst :
        /\ WentThroughLoop(i)
        /\ obs[i].snap.code = CodeTally
        /\ Len(obs[i].udSeen) = 2
        /\ PyDict_GetItem(UdBefore(obs[i].snap.code, obs[i].input, 2),
                          TextKey("n")) = PyLong(1)
        /\ obs[i].udSeen[2].tag = "dict"
        /\ PyDict_GetItem(obs[i].udSeen[2], TextKey("n")) = PyNULL

\* C8: when a call that went through the loop gets to the output callback,
\* and when it has returned, the asset tracker has been given one tuple
\* (stage name, asset name, "Filter") for each reading of the outgoing
\* batch, in its order, and no other; before the loop is over it has been
\* given none.
C8_OneTupleForEachSurvivor ==
    \A i \in Inst :
        LET tuplesOf(rs) ==
                [n \in 1..Len(rs) |->
                    [name |-> i, asset |-> rs[n].asset, event |-> "Filter"]]
        IN  /\ ingest[i].pc = "forward"
                => obs[i].tuples = tuplesOf(ingest[i].readings)
            /\ WentThroughLoop(i) => obs[i].tuples = tuplesOf(Out(i))
            /\ ingest[i].pc \in {"lock", "cfg", "snap", "loop", "track"}
                => obs[i].tuples = <<>>

\* C8, its case: of two readings of different assets the first was dropped,
\* and the one tuple is for the asset of the second.
C8_NoTupleForDropped ==
    \E i \in Inst :
        /\ WentThroughLoop(i)
        /\ Len(obs[i].input) = 2
        /\ obs[i].input[1].asset # obs[i].input[2].asset
        /\ ~InOut(i, 1)
        /\ InOut(i, 2)
        /\ Len(obs[i].tuples) = 1
        /\ obs[i].tuples[1].asset = obs[i].input[2].asset

\* C9: a plugin_shutdown call of the instance that initialized the engine
\* finalizes the engine; a plugin_shutdown call of any other instance runs
\* on the running engine, gives the engine lock back and changes nothing
\* else of the engine; and the engine goes from initialized to finalized in
\* no other step.  The code does not keep this: see
\* C9_OtherShutdownOnFinalizedEngine.
C9_ShutdownFinalizesOnlyAsOwner ==
    [][/\ \A i \in Inst :
              (\E crash \in BOOLEAN : plugin_shutdown(i, crash)) =>
                  /\ ~crashed'
                  /\ engine.initialized
                  /\ IF filter[i].m_init
                     THEN ~engine'.initialized
                     ELSE engine' = [engine EXCEPT !.gil = 0]
       /\ (engine.initialized /\ ~engine'.initialized) =>
              \E i \in Inst :
                  filter[i].live /\ filter[i].m_init /\ ~filter'[i].live
      ]_vars

\* C9: the instance that initialized the engine has been shut down, and the
\* process was ended in the plugin_shutdown call of an instance that had
\* joined the running engine.
C9_OtherShutdownOnFinalizedEngine ==
    \E i \in Inst :
        /\ crashed
        /\ ~engine.initialized
        /\ filter[i].live
        /\ ~filter[i].m_init
        /\ NoCallRunning

\* C10: a plugin_init call with a category that has no item "code" returns
\* NULL, logs the fatal error, leaves no filter object behind, and leaves
\* the engine, initialized or not, as it was.
C10_MissingCodeFailsConstruction ==
    [][\A i \in Inst :
          (host'[i].flip # host[i].flip /\ ~host'[i].hadCode) =>
              /\ host'[i].ret = "NULL"
              /\ host'[i].fatal = "missing code"
              /\ ~filter'[i].live
              /\ engine' = engine
      ]_vars

\* C10, its case: a construction without the code has failed while another
\* instance keeps the engine running.
C10_FailedBesideRunningEngine ==
    \E i, j \in Inst :
        /\ i # j
        /\ host[i].ret = "NULL"
        /\ ~host[i].hadCode
        /\ ~filter[i].live
        /\ filter[j].live
        /\ engine.initialized

\* C11: of the ingestion calls of the instances, at most one is between its
\* acquiring and its releasing of the engine lock at any time; and every run
\* of the code, every binding and every removal of user_data is a step of
\* the thread that holds the engine lock.  The code does not keep the first
\* half: see C11_TwoCallsInTheirLoops.
C11_OneCallInsideLoop ==
    /\ [](Cardinality({ i \in Inst : ingest[i].pc = "loop" }) <= 1)
    /\ [][\A i \in Inst :
              (\/ Len(obs'[i].executed) > Len(obs[i].executed)
               \/ ingest[i].pc = "loop" /\ ingest'[i].pc = "track")
                  => engine.gil = i
      ]_vars
    /\ [][engine'.user_data # engine.user_data
              => (engine.gil # 0 \/ engine'.gil # 0)
      ]_vars

\* C11: the call of instance 1 has run the code for its first reading and
\* waits inside the run for its second, while the call of instance 2 holds
\* the engine lock and has bound its own user_data.
C11_TwoCallsInTheirLoops ==
    /\ ingest[1].pc = "loop"
    /\ Len(obs[1].executed) = 1
    /\ ingest[2].pc = "loop"
    /\ engine.gil = 2
    /\ engine.user_data = PyDict_New

\* C12: every run of a call is given the code the call read under the
\* configuration lock, whatever plugin_reconfigure does meanwhile, and a call
\* that read enabled with a code runs all its readings; what a call reads
\* under the lock is the code and the flag the filter holds at that moment,
\* so the last reconfiguration before it.
C12_CallRunsTheCodeItRead ==
    /\ [](\A i \in Inst :
            /\ \A k \in 1..Len(obs[i].ranCode) :
                   obs[i].ranCode[k] = obs[i].snap.code
            /\ WentThroughLoop(i) =>
                   Len(obs[i].ranCode) = Len(obs[i].input))
    /\ [][\A i \in Inst :
              (ingest[i].pc = "cfg" /\ ingest'[i].pc = "snap") =>
                  obs'[i].snap = [enabled |-> filter[i].m_enabled,
                                  code |-> filter[i].m_code]
      ]_vars

\* C12, its case: a call that read one code has run both its readings with
\* it although the code was changed before the second ran (the log entry of
\* the second shows the new one).
C12_ReconfiguredBetweenReadings ==
    /\ WentThroughLoop(1)
    /\ obs[1].snap.code = CodeUndefined
    /\ obs[1].ranCode = <<CodeUndefined, CodeUndefined>>
    /\ Len(obs[1].logs) = 2
    /\ obs[1].logs[1].code = CodeUndefined
    /\ obs[1].logs[2].code = CodeTally
    /\ filter[1].m_code = CodeTally

\* C13: at every moment of a call the readings the code has been run for
\* are the first ones of the input batch, each once, in the order of the
\* batch; and when the loop is over they are all of them, whatever was
\* replaced, kept or removed on the way.
C13_EachReadingRunOnceInOrder ==
    \A i \in Inst :
        /\ Len(obs[i].executed) <= Len(obs[i].input)
        /\ \A k \in 1..Len(obs[i].executed) : obs[i].executed[k] = k
        /\ (ingest[i].pc \in {"track", "forward"} \/ WentThroughLoop(i))
               => Len(obs[i].executed) = Len(obs[i].input)

\* C13, its case: the first reading was removed, and the code was then run
\* for the second, once.
C13_RunAfterRemoval ==
    \E i \in Inst :
        /\ WentThroughLoop(i)
        /\ Len(obs[i].input) = MaxBatch
        /\ EmptyResult(i, 1)
        /\ ~InOut(i, 1)
        /\ obs[i].executed = [k \in 1..MaxBatch |-> k]

\* What a turn of the loop of instance i is about to hand to the unpack: the
\* object the run leaves under "reading", PyNULL when the run raises.
ResultNow(i) ==
    LET run == PyRun_String(ingest[i].pythonCode,
                   createPythonReadingData(
                       ingest[i].readings[ingest[i].elem].points),
                   engine.user_data)
    IN  IF run.exc # "" THEN PyNULL ELSE run.reading

RaisedNow(i) ==
    PyRun_String(ingest[i].pythonCode,
                 createPythonReadingData(
                     ingest[i].readings[ingest[i].elem].points),
                 engine.user_data).exc # ""

\* The place of the first entry of an unsupported type in a mapping, 0 when
\* there is none.
FirstUnsupported(d) ==
    IF \E n \in 1..Len(d.val) : ~Supported(d.val[n].v)
    THEN CHOOSE n \in 1..Len(d.val) :
             /\ ~Supported(d.val[n].v)
             /\ \A m \in 1..(n - 1) : Supported(d.val[m].v)
    ELSE 0

\* A turn of the loop of instance i: the code is run for one more reading.
LoopTurn(i) == Len(obs'[i].executed) > Len(obs[i].executed)

\* C14: when the unpack is given a non-empty mapping with k entries of
\* supported types before the first entry of an unsupported type, it returns,
\* and returns the k datapoints of those entries in their order: the call
\* goes on, and for k > 0 they are the datapoints the reading gets.  The
\* code does not keep this: see C14_ProcessEndedInUnpack.
C14_UnpackStopsAtUnsupported ==
    [][\A i \in Inst :
          (/\ LoopTurn(i)
           /\ PyDict_Check(ResultNow(i))
           /\ FirstUnsupported(ResultNow(i)) > 0) =>
              LET d == ResultNow(i)
                  k == FirstUnsupported(d) - 1
              IN  /\ ~crashed'
                  /\ k > 0 =>
                        ingest'[i].readings[ingest[i].elem].points =
                            [n \in 1..k |->
                                Datapoint(d.val[n].k.s, UnpackValue(d.val[n].v))]
      ]_vars

\* C14: the process was ended in the unpack of the mapping
\* {'unit': 'C', b'bad': [1], b'z': 2}, after its first entry.
C14_ProcessEndedInUnpack ==
    \E i \in Inst :
        /\ crashed
        /\ ingest[i].pc = "loop"
        /\ ingest[i].pythonCode = CodeMixed
        /\ obs[i].executed = <<1>>

\* C15: a turn of the loop whose run did not raise removes the reading from
\* the batch if and only if what the run left under "reading" is absent, is
\* not a mapping or is an empty mapping; after a run that left a non-empty
\* mapping the reading is still in the batch.  The code does not keep this:
\* see C15_RemovedForNonEmptyMapping.
C15_RemovedIffNoMapping ==
    [][\A i \in Inst :
          (LoopTurn(i) /\ ~RaisedNow(i) /\ ~crashed') =>
              LET r == ResultNow(i)
              IN  (Len(ingest'[i].readings) < Len(ingest[i].readings))
                      <=> (\/ r = PyNULL
                           \/ ~PyDict_Check(r)
                           \/ PyDict_Size(r) = 0)
      ]_vars

\* C15: a call whose code left the non-empty mapping {b'bad': [1]} for a
\* reading with a datapoint has returned, and the reading is gone.
C15_RemovedForNonEmptyMapping ==
    \E i \in Inst :
        /\ WentThroughLoop(i)
        /\ obs[i].snap.code = CodeListOnly
        /\ obs[i].input =
               WithIds(<<Reading("TI1", <<Temperature(IntValue(23))>>)>>)
        /\ obs[i].logs = <<>>
        /\ Out(i) = <<>>

\* C16: a turn of the loop that ends leaves the reading it was about in one
\* of three states and the other readings as they were: in the batch as it
\* was, when the run raised; in the batch with, for datapoints, the list the
\* unpack returned and nothing else, when the unpack returned a datapoint;
\* removed from the batch otherwise.
C16_KeptReplacedOrRemoved ==
    [][\A i \in Inst :
          (LoopTurn(i) /\ ~crashed') =>
              LET e == ingest[i].elem
                  old == ingest[i].readings
                  new == ingest'[i].readings
                  got == getFilteredReadingData(ResultNow(i))
              IN  IF RaisedNow(i) THEN new = old
                  ELSE IF ~got.null /\ got.points # <<>>
                  THEN new = [n \in 1..Len(old) |->
                                 IF n = e
                                 THEN [id |-> old[e].id, asset |-> old[e].asset,
                                       points |-> got.points]
                                 ELSE old[n]]
                  ELSE new = [n \in 1..(Len(old) - 1) |->
                                 IF n < e THEN old[n] ELSE old[n + 1]]
      ]_vars

\* C16, its case: a reading with the datapoint temperature came out of a
\* call whose code bound a new mapping to reading with the one datapoint of
\* that mapping, the temperature gone.
C16_ReplacedWithoutRest ==
    \E i \in Inst :
        /\ WentThroughLoop(i)
        /\ obs[i].snap.code = CodeRebind
        /\ obs[i].input =
               WithIds(<<Reading("TI1", <<Temperature(IntValue(23))>>)>>)
        /\ Out(i) =
               WithIds(<<Reading("TI1", <<Datapoint("unit", StringValue("C"))>>)>>)

\* C17: the engine lock is held by no thread that is not inside the loop of
\* an ingestion call: it is free when the plugin_init that started the
\* engine returns, when a plugin_ingest call has left its loop, whatever it
\* did to its readings, and when the plugin_shutdown of an instance that did
\* not start the engine returns; so with no call inside its loop the lock is
\* free for the next one.
C17_EngineLockReleased ==
    /\ [](/\ \A i \in Inst : engine.gil = i => ingest[i].pc = "loop"
          /\ engine.gil \in {0} \cup Inst)
    /\ [][\A i \in Inst :
              /\ (~filter[i].live /\ filter'[i].live /\ filter'[i].m_init)
                     => engine'.gil = 0
              /\ (filter[i].live /\ ~filter[i].m_init /\ ~filter'[i].live)
                     => engine'.gil = 0
              /\ (ingest[i].pc = "loop" /\ ingest'[i].pc # "loop" /\ ~crashed')
                     => engine'.gil = 0
      ]_vars

\* C17, its case: an ingestion call of the instance that started the engine
\* has gone through its loop, logged a failure and returned, and a later
\* call of another instance holds the engine lock.
C17_NextCallHoldsLock ==
    \E i, j \in Inst :
        /\ i # j
        /\ WentThroughLoop(j)
        /\ Len(obs[j].logs) = 1
        /\ filter[j].live
        /\ filter[j].m_init
        /\ ingest[i].pc = "loop"
        /\ engine.gil = i

\* C18: while a filter instance is constructed and not shut down the engine
\* is initialized, so it is when a call of such an instance enters the
\* RUNNING path.  The code does not keep this: see
\* C18_RunningPathOnFinalizedEngine.
C18_EngineOutlivesInstances ==
    \A i \in Inst : filter[i].live => engine.initialized

\* C18: the instance that started the engine has been shut down, and the
\* process was ended when a call of an instance that had joined the engine
\* got to PyGILState_Ensure with its code and its batch.
C18_RunningPathOnFinalizedEngine ==
    \E i \in Inst :
        /\ crashed
        /\ filter[i].live
        /\ ~filter[i].m_init
        /\ ingest[i].pc = "snap"
        /\ ~NotActive(ingest[i].enabled, ingest[i].pythonCode)
        /\ ~engine.initialized

\* C19: every entry logged for a failed run of a call carries the stage name
\* of the filter and the code the run was given, which is the code the call
\* read at its top, whatever plugin_reconfigure does meanwhile.  The code
\* does not keep this: see C19_LoggedCodeWasNotRun.
C19_LogCarriesTheCodeRun ==
    \A i \in Inst :
        \A l \in 1..Len(obs[i].logs) :
            /\ obs[i].logs[l].name = i
            /\ obs[i].logs[l].code = obs[i].snap.code
            /\ \E k \in 1..Len(obs[i].ranCode) :
                   obs[i].ranCode[k] = obs[i].logs[l].code

\* C19: a call that read the code undefined_name() runs it for a reading,
\* the run fails with NameError, and the entry logged for it carries the
\* tally code, which plugin_reconfigure stored meanwhile and which was run
\* for no reading of the call.
C19_LoggedCodeWasNotRun ==
    /\ ingest[1].pc = "loop"
    /\ ingest[1].pythonCode = CodeUndefined
    /\ obs[1].ranCode = <<CodeUndefined>>
    /\ obs[1].logs =
           <<[name |-> 1, code |-> CodeTally, error |-> "NameError"]>>

\* A step of the thread that is inside plugin_ingest of instance i.
ThreadStep(i) ==
    \/ ingest_lock(i)
    \/ IngestStep(i)
    \/ eval_drop_gil(i)
    \/ eval_take_gil(i)

\* The thread inside plugin_ingest of instance i holds the configuration
\* lock, the engine lock.
HoldsConfigLock(i) == filter[i].mutex = "ingest"
HoldsEngineLock(i) == engine.gil = i

\* C20: the thread of an ingestion call never holds the configuration lock
\* and the engine lock together: it holds the configuration lock only
\* between lines 175 and 179.  plugin_reconfigure never touches the engine.
\* The output callback is called by a thread that holds neither lock.  So a
\* reconfiguration that finds the configuration lock taken waits only for
\* the two reads of lines 176-177, which can always be made, never for a
\* batch; and, as long as the process lives, every call in progress can
\* take a step or waits for a thread that can.
C20_LocksNeverHeldTogether ==
    /\ [](\A i \in Inst :
              /\ ~(HoldsConfigLock(i) /\ HoldsEngineLock(i))
              /\ HoldsConfigLock(i) => ingest[i].pc = "cfg"
              /\ filter[i].mutex = "reconfigure" => reconf[i] = "locked")
    /\ [][\A i \in Inst :
              /\ (~obs[i].returned /\ obs'[i].returned)
                     => /\ ~HoldsConfigLock(i) /\ ~HoldsEngineLock(i)
                        /\ filter' = filter /\ engine' = engine
              /\ reconf'[i] # reconf[i] => engine' = engine
      ]_vars
    /\ [](~crashed =>
            \A i \in Inst :
              /\ reconf[i] = "locked"
                     => ENABLED (\E new \in ConcNewConfigs :
                                     reconfigure_apply(i, new))
              /\ (filter[i].live /\ reconf[i] = "idle"
                    /\ ~ENABLED reconfigure_lock(i))
                     => /\ HoldsConfigLock(i)
                        /\ ENABLED ingest_snapshot(i)
              /\ ingest[i].pc # "idle"
                     => \/ ENABLED ThreadStep(i)
                        \/ ingest[i].pc = "lock" /\ reconf[i] = "locked"
                        \/ \E j \in Inst \ {i} :
                               /\ HoldsEngineLock(j)
                               /\ ENABLED ThreadStep(j))

\* C20, its case: plugin_reconfigure holds the configuration lock of
\* instance 1 while the ingestion call of instance 1 is in the middle of its
\* batch, one reading done and one to do, and holds the engine lock.
C20_ReconfigureInsideRunningBatch ==
    /\ reconf[1] = "locked"
    /\ filter[1].mutex = "reconfigure"
    /\ ingest[1].pc = "loop"
    /\ HoldsEngineLock(1)
    /\ Len(obs[1].executed) = 1
    /\ ingest[1].elem <= Len(ingest[1].readings)

=============================================================================
